---------------------------- MODULE Spec2Model ----------------------------
(***************************************************************************)
(* Model of the S3 object-storage adapter                                  *)
(* (storages/object-storage/src/lib.rs): S3Storage::new and its bootstrap  *)
(* of the root prefix, S3Storage::build, the path resolvers path and       *)
(* data_path, fetch_schema and ResultExt::map_storage_err.                 *)
(*                                                                         *)
(* Results are records [tag, val];  an Option is a sequence of length 0    *)
(* (None) or 1 (Some(v)); strings that are compared or cut are sequences   *)
(* of ASCII codes.                                                         *)
(***************************************************************************)
EXTENDS Integers, Sequences, FiniteSets, TLC

VARIABLES
    exists,       \* the backing store: does the root prefix exist as a directory
    pc,           \* per caller: where its call of S3Storage::new stands
    opRes,        \* per caller: what build(..) returned in this call
    statRes,      \* per caller: outcome of store.stat(prefix) in this call
    createRes,    \* per caller: outcome of store.create_dir(prefix) in this call
    log,          \* per caller: the store operations this call has issued, in order
    ret,          \* per caller: what new returned ("none" while running)
    started,      \* number of calls of new started so far
    overlap,      \* history: some call of new started while another was running
    createCalls,  \* history: create_dir calls issued so far, over all callers
    createOk,     \* history: create_dir calls that returned Ok so far
    buildArgs,    \* the arguments of the call of build under study
    buildRes,     \* what that call of build returned
    hexIn,        \* two byte sequences handed to encode_hex
    hexOut,       \* their hex strings, once encoded
    root,         \* the adapter's root prefix path (self.path)
    pathArgs,     \* table names and keys of the calls of path and data_path
    pathRes,      \* what those calls returned, in the order they were made
    objects,      \* the backing store: the object at each schema path, or "absent"
    fetchArg,     \* the path of the latest call of fetch_schema
    fetchRead,    \* what store.read returned in that call
    fetchRes      \* what that call of fetch_schema returned

bootVars == <<exists, pc, opRes, statRes, createRes, log, ret, started, overlap,
              createCalls, createOk>>

buildVars == <<buildArgs, buildRes>>

hexVars == <<hexIn, hexOut>>

pathVars == <<root, pathArgs, pathRes>>

schemaVars == <<objects, fetchArg, fetchRead, fetchRes>>

vars == <<bootVars, buildVars, hexVars, pathVars, schemaVars>>

-----------------------------------------------------------------------------
(* Bounds and input sets *)

MaxConstructions == 4

Callers == {"c1", "c2"}

\* ErrorKind values a store operation can fail with, besides NotFound
OtherKinds == {"PermissionDenied", "Unexpected"}

-----------------------------------------------------------------------------
(* Result values *)

Ok(v) == [tag |-> "Ok", val |-> v]

Err(k) == [tag |-> "Err", val |-> k]

IsOk(r) == r.tag = "Ok"

IsErr(r) == r.tag = "Err"

NoResult == [tag |-> "none", val |-> "none"]

-----------------------------------------------------------------------------
(* The backing store, as the adapter sees it through OpendalStore *)

\* store.stat(prefix): the outcomes the store can report in state e
StatOutcomes(e) ==
    (IF e THEN {Ok("dir")} ELSE {Err("NotFound")}) \cup {Err(k) : k \in OtherKinds}

\* store.create_dir(prefix): outcome and the store state it leaves; a call that
\* reports an error may or may not have been applied by the store
CreateDirOutcomes(e) ==
    {[res |-> Ok("unit"), after |-> TRUE]}
        \cup {[res |-> Err(k), after |-> a] : k \in OtherKinds, a \in {e, TRUE}}

-----------------------------------------------------------------------------
(* Options *)

None == <<>>

Some(v) == <<v>>

IsSome(o) == Len(o) = 1

Unwrap(o) == o[1]

OptBool == {None, Some(TRUE), Some(FALSE)}

-----------------------------------------------------------------------------
(* S3Storage::build *)

Regions == {None, Some("us-east-1")}

\* an endpoint left out, a well-formed one, a malformed one
Endpoints == {None, Some("localhost:9000"), Some("")}

\* endpoint_resolver(endpoint, use_ssl): the scheme follows use_ssl; a malformed
\* endpoint is an error
endpoint_resolver(endpoint, use_ssl) ==
    IF endpoint = ""
    THEN Err("ConfigInvalid")
    ELSE Ok([scheme |-> IF use_ssl = Some(TRUE) THEN "https" ELSE "http",
             host |-> endpoint])

\* S3::default().http_client(set_user_agent()).bucket(bucket).root(prefix)
S3Default(bucket, prefix) ==
    [user_agent |-> TRUE,
     bucket |-> bucket,
     root |-> prefix,
     region |-> None,
     config_load_disabled |-> FALSE,
     ec2_metadata_disabled |-> FALSE,
     allow_anonymous |-> FALSE,
     endpoint |-> None,
     server_side_encryption |-> FALSE]

\* if let Some(region) = region { builder.region(region) }
ApplyRegion(b, region) ==
    IF IsSome(region) THEN [b EXCEPT !.region = region] ELSE b

\* if no_credentials { disable_config_load().disable_ec2_metadata().allow_anonymous() }
ApplyCredentialsNoEc2(b, no_credentials) ==
    IF no_credentials
    THEN [b EXCEPT !.config_load_disabled = TRUE, !.allow_anonymous = TRUE]
    ELSE b

ApplyCredentials(b, no_credentials) ==
    IF no_credentials
    THEN [b EXCEPT !.config_load_disabled = TRUE,
                   !.ec2_metadata_disabled = TRUE,
                   !.allow_anonymous = TRUE]
    ELSE b

\* builder.endpoint(&url)
ApplyEndpoint(b, url) == [b EXCEPT !.endpoint = Some(url)]

\* if server_side_encryption.unwrap_or_default() { server_side_encryption_with_s3_key() }
ApplyEncryption(b, sse) ==
    IF IsSome(sse) /\ Unwrap(sse) THEN [b EXCEPT !.server_side_encryption = TRUE] ELSE b

\* Operator::new(builder)?.layer(LoggingLayer::default()).finish(); accept says
\* whether Operator::new takes the configuration
OperatorNew(b, accept) ==
    IF accept
    THEN Ok([config |-> b, layers |-> <<"LoggingLayer">>])
    ELSE Err("ConfigInvalid")

build(bucket, region, prefix, no_credentials, endpoint, use_ssl, sse, accept) ==
    LET b1 == ApplyCredentials(ApplyRegion(S3Default(bucket, prefix), region),
                               no_credentials)
        url == IF IsSome(endpoint)
               THEN endpoint_resolver(Unwrap(endpoint), use_ssl)
               ELSE NoResult
    IN  IF IsSome(endpoint) /\ IsErr(url)
        THEN Err(url.val)
        ELSE OperatorNew(
                 ApplyEncryption(
                     IF IsSome(endpoint) THEN ApplyEndpoint(b1, url.val) ELSE b1,
                     sse),
                 accept)

BuildArgs ==
    [bucket : {"data"}, region : Regions, prefix : {"/warehouse"},
     no_credentials : BOOLEAN, endpoint : Endpoints, use_ssl : OptBool,
     server_side_encryption : OptBool, accept : BOOLEAN]

buildOf(a) ==
    build(a.bucket, a.region, a.prefix, a.no_credentials, a.endpoint, a.use_ssl,
          a.server_side_encryption, a.accept)

\* the configurations callers of new use in the bootstrap runs: a plain one, an
\* anonymous one with an endpoint, one with a malformed endpoint, one that
\* Operator::new rejects
NewArgs ==
    {a \in BuildArgs :
        \/ a.region = None /\ ~a.no_credentials /\ a.endpoint = None
             /\ a.use_ssl = None /\ a.server_side_encryption = None
        \/ a.region # None /\ a.no_credentials /\ a.endpoint = Some("localhost:9000")
             /\ a.use_ssl = Some(FALSE) /\ a.server_side_encryption = Some(TRUE)
             /\ a.accept
        \/ a.region = None /\ a.no_credentials /\ a.endpoint = Some("")
             /\ a.use_ssl = Some(TRUE) /\ a.server_side_encryption = None
             /\ a.accept}

-----------------------------------------------------------------------------
(* Strings and paths: sequences of ASCII codes *)

Slash == 47

Dot == 46

\* "ron"
RonExt == <<114, 111, 110>>

\* a < b for Rust's Vec<u8>, [u8] and String: lexicographic on the bytes, a
\* proper prefix being smaller
LexLess(a, b) ==
    \E i \in 1..(Len(b)) :
        /\ \A j \in 1..(i - 1) : j <= Len(a) /\ a[j] = b[j]
        /\ i - 1 <= Len(a)
        /\ (i <= Len(a) => a[i] < b[i])

\* hex: HEX_CHARS_LOWER, b"0123456789abcdef"
HexChar(n) == IF n < 10 THEN 48 + n ELSE 87 + n

\* a plausible slip: each byte formatted as {:x}, without the leading zero
encode_hex_unpadded(bytes) ==
    LET one(b) == IF b < 16 THEN <<HexChar(b)>> ELSE <<HexChar(b \div 16), HexChar(b % 16)>>
        F[i \in 0..Len(bytes)] == IF i = 0 THEN <<>> ELSE F[i - 1] \o one(bytes[i])
    IN  F[Len(bytes)]

\* a plausible slip: the two digits of each byte swapped
encode_hex_swapped(bytes) ==
    [i \in 1..(2 * Len(bytes)) |->
        LET b == bytes[(i + 1) \div 2]
        IN  IF i % 2 = 1 THEN HexChar(b % 16) ELSE HexChar(b \div 16)]

\* ToHex::encode_hex::<String>: two lowercase digits per byte, high nibble first
encode_hex(bytes) ==
    [i \in 1..(2 * Len(bytes)) |->
        LET b == bytes[(i + 1) \div 2]
        IN  IF i % 2 = 1 THEN HexChar(b \div 16) ELSE HexChar(b % 16)]

\* index of the last c in p, 0 when there is none
LastIndexOf(p, c) ==
    LET S == {i \in 1..Len(p) : p[i] = c}
    IN  IF S = {} THEN 0 ELSE CHOOSE i \in S : \A j \in S : j <= i

IsAbsolute(p) == Len(p) > 0 /\ p[1] = Slash

\* PathBuf::push: an absolute argument replaces the path; otherwise it is
\* appended, after a separator unless the path is empty or ends in one
push(self, p) ==
    IF IsAbsolute(p)
    THEN p
    ELSE IF Len(self) > 0 /\ self[Len(self)] # Slash
         THEN self \o <<Slash>> \o p
         ELSE self \o p

\* the path up to its last component: trailing separators and trailing "."
\* components are not components
RECURSIVE TrimTrailing(_)
TrimTrailing(p) ==
    IF Len(p) > 1 /\ p[Len(p)] = Slash
    THEN TrimTrailing(SubSeq(p, 1, Len(p) - 1))
    ELSE IF Len(p) > 1 /\ p[Len(p)] = Dot /\ p[Len(p) - 1] = Slash
         THEN TrimTrailing(SubSeq(p, 1, Len(p) - 1))
         ELSE p

\* Path::file_name: the last component if it is a normal one
file_name(p) ==
    LET t == TrimTrailing(p)
        n == SubSeq(t, LastIndexOf(t, Slash) + 1, Len(t))
    IN  IF n \in {<<>>, <<Dot>>, <<Dot, Dot>>} THEN None ELSE Some(n)

\* Path::file_stem of a file name: the part before the last dot, the whole name
\* when it has no dot or only a leading one
file_stem(n) ==
    LET d == LastIndexOf(n, Dot)
    IN  IF d <= 1 THEN n ELSE SubSeq(n, 1, d - 1)

\* Path::with_extension: the path cut after the stem of its file name, then
\* "." and the extension; unchanged when it has no file name
with_extension(p, ext) ==
    IF file_name(p) = None
    THEN p
    ELSE LET t == TrimTrailing(p)
             stemEnd == LastIndexOf(t, Slash) + Len(file_stem(Unwrap(file_name(p))))
         IN  SubSeq(p, 1, stemEnd) \o (IF ext = <<>> THEN <<>> ELSE <<Dot>> \o ext)

\* Path's PartialEq compares components: whether the path has a root, and its
\* segments without the empty ones and without "." (a leading "." of a
\* relative path is a component)
RECURSIVE Segments(_)
Segments(p) ==
    IF p = <<>>
    THEN <<>>
    ELSE LET S == {i \in 1..Len(p) : p[i] = Slash}
             e == IF S = {} THEN Len(p) + 1 ELSE CHOOSE i \in S : \A j \in S : i <= j
         IN  <<SubSeq(p, 1, e - 1)>> \o Segments(SubSeq(p, e + 1, Len(p)))

Components(p) ==
    LET segs == Segments(p)
        keep == {i \in 1..Len(segs) :
                    /\ segs[i] # <<>>
                    /\ segs[i] = <<Dot>> => (i = 1 /\ ~IsAbsolute(p))}
        F[i \in 0..Len(segs)] ==
            IF i = 0 THEN <<>>
            ELSE IF i \in keep THEN Append(F[i - 1], segs[i]) ELSE F[i - 1]
    IN  [has_root |-> IsAbsolute(p), parts |-> F[Len(segs)]]

PathEq(p, q) == Components(p) = Components(q)

-----------------------------------------------------------------------------
(* Keys *)

MaxKeyLen == 2

MaxHexLen == 2

\* byte values of the keys of the path runs
KeyByteVals == {0, 1, 16}

\* byte values of the hex runs: both sides of each digit/letter boundary
HexByteVals == {0, 9, 10, 16, 159, 255}

SeqsUpTo(S, lo, hi) == UNION {[1..n -> S] : n \in lo..hi}

\* a key is one the engine can encode, with its canonical big-endian bytes, or
\* one it cannot
Keys ==
    {[supported |-> TRUE, bytes |-> b] : b \in SeqsUpTo(KeyByteVals, 1, MaxKeyLen)}
        \cup {[supported |-> FALSE, bytes |-> <<>>]}

\* Key::to_cmp_be_bytes
to_cmp_be_bytes(key) ==
    IF key.supported THEN Ok(key.bytes) ELSE Err("Key")

-----------------------------------------------------------------------------
(* S3Storage::path and S3Storage::data_path *)

\* "/warehouse", "w", "w/"
Prefixes ==
    {<<47, 119, 97, 114, 101, 104, 111, 117, 115, 101>>, <<119>>, <<119, 47>>}

\* "orders", "t", "t.ron"
Tables == {<<111, 114, 100, 101, 114, 115>>, <<116>>, <<116, 46, 114, 111, 110>>}

path(self, table_name) == push(self, table_name)

\* a plausible slip: the extension set on the table path, before the key is pushed
data_path_ext_first(self, table_name, key) ==
    LET k == to_cmp_be_bytes(key)
    IN  IF IsErr(k)
        THEN k
        ELSE Ok(push(with_extension(path(self, table_name), RonExt), encode_hex(k.val)))

data_path(self, table_name, key) ==
    LET k == to_cmp_be_bytes(key)
    IN  IF IsErr(k)
        THEN k
        ELSE Ok(with_extension(push(path(self, table_name), encode_hex(k.val)), RonExt))

-----------------------------------------------------------------------------
(* S3Storage::fetch_schema and ResultExt::map_storage_err *)

\* what a schema object can hold: valid DDL, an empty text, a text that is no DDL
ValidDDL == {"CREATE TABLE orders (id INT)"}

Texts == ValidDDL \cup {"", "not ddl"}

Contents == {"absent"} \cup Texts

\* the paths handed to fetch_schema
SchemaPaths == {path(<<119>>, t) : t \in Tables}

\* an error of the store client: its kind and the operation that failed
StoreError(k, operation) == [kind |-> k, operation |-> operation]

\* store.read(path): the outcomes the store can report for an object
ReadOutcomes(content) ==
    (IF content = "absent"
     THEN {Err(StoreError("NotFound", "read"))}
     ELSE {Ok(content)})
        \cup {Err(StoreError(k, "read")) : k \in OtherKinds}

\* e.to_string(): the error's Display text
to_string(e) == <<e.kind, "at", e.operation>>

\* a plausible slip: a failed read taken for an empty object
map_storage_err_default(r) == IF IsErr(r) THEN Ok("") ELSE r

\* self.map_err(|e| e.to_string()).map_err(Error::StorageMsg)
map_storage_err(r) ==
    IF IsErr(r)
    THEN Err([variant |-> "StorageMsg", msg |-> to_string(r.val)])
    ELSE r

\* Schema::from_ddl
from_ddl(data) ==
    IF data \in ValidDDL
    THEN Ok([ddl |-> data])
    ELSE Err([variant |-> "Schema", msg |-> <<"cannot parse", data>>])

\* self.store.read(path).map_storage_err().and_then(|data| Schema::from_ddl(&data)),
\* given what store.read returned
fetch_schema(read) ==
    LET mapped == map_storage_err(read)
    IN  IF IsOk(mapped) THEN from_ddl(mapped.val) ELSE mapped

-----------------------------------------------------------------------------
(* S3Storage::new *)

\* let op = build(..); let store = Arc::new(OpendalStore::new(op)): a store is
\* made only from an Operator, so a failed build ends new with that error
AfterBuildIgnoreErr(b) == "stat"

AfterBuild(b) == IF IsErr(b) THEN "return_err" ELSE "stat"

\* if let Err(e) = store.stat(prefix).await { if e.kind() == NotFound { create_dir } }
AfterStatAlwaysCreate(s) == "create_dir"

AfterStat(s) ==
    IF IsErr(s)
    THEN IF s.val = "NotFound" THEN "create_dir" ELSE "return_ok"
    ELSE "return_ok"

\* store.create_dir(prefix).await? followed by Ok(Self {..})
AfterCreateDirIgnoreErr(c) == Ok("adapter")

AfterCreateDir(c) == IF IsErr(c) THEN Err(c.val) ELSE Ok("adapter")

Running(c) == pc[c] \in {"stat", "create_dir"}

BootInitWith(E) ==
    /\ exists \in E
    /\ pc = [c \in Callers |-> "idle"]
    /\ opRes = [c \in Callers |-> NoResult]
    /\ statRes = [c \in Callers |-> NoResult]
    /\ createRes = [c \in Callers |-> NoResult]
    /\ log = [c \in Callers |-> <<>>]
    /\ ret = [c \in Callers |-> NoResult]
    /\ started = 0
    /\ overlap = FALSE
    /\ createCalls = 0
    /\ createOk = 0

BootInit == BootInitWith(BOOLEAN)

BootIdle == BootInitWith({FALSE})

\* A caller calls new; the call runs build and, if it got an Operator, goes on
\* to the probe.  A caller whose earlier call has returned may call again.
NewBuild(c) ==
    /\ pc[c] \in {"idle", "done"}
    /\ started < MaxConstructions
    /\ \E a \in NewArgs : LET b == buildOf(a) IN
          /\ opRes' = [opRes EXCEPT ![c] = b]
          /\ IF AfterBuild(b) = "return_err"
             THEN /\ pc' = [pc EXCEPT ![c] = "done"]
                  /\ ret' = [ret EXCEPT ![c] = Err(b.val)]
             ELSE /\ pc' = [pc EXCEPT ![c] = "stat"]
                  /\ ret' = [ret EXCEPT ![c] = NoResult]
    /\ statRes' = [statRes EXCEPT ![c] = NoResult]
    /\ createRes' = [createRes EXCEPT ![c] = NoResult]
    /\ log' = [log EXCEPT ![c] = <<>>]
    /\ started' = started + 1
    /\ overlap' = (overlap \/ \E d \in Callers \ {c} : Running(d))
    /\ UNCHANGED <<exists, createCalls, createOk, buildVars, hexVars, pathVars, schemaVars>>

\* store.stat(prefix).await resolves, and new runs on to its next await or return
NewStat(c) ==
    /\ pc[c] = "stat"
    /\ \E s \in StatOutcomes(exists) :
          /\ statRes' = [statRes EXCEPT ![c] = s]
          /\ IF AfterStat(s) = "create_dir"
             THEN /\ pc' = [pc EXCEPT ![c] = "create_dir"]
                  /\ ret' = ret
             ELSE /\ pc' = [pc EXCEPT ![c] = "done"]
                  /\ ret' = [ret EXCEPT ![c] = Ok("adapter")]
    /\ log' = [log EXCEPT ![c] = Append(@, "stat")]
    /\ UNCHANGED <<exists, opRes, createRes, started, overlap, createCalls, createOk,
                   buildVars, hexVars, pathVars, schemaVars>>

\* store.create_dir(prefix).await resolves, and new returns
NewCreateDir(c) ==
    /\ pc[c] = "create_dir"
    /\ \E o \in CreateDirOutcomes(exists) :
          /\ exists' = o.after
          /\ createRes' = [createRes EXCEPT ![c] = o.res]
          /\ ret' = [ret EXCEPT ![c] = AfterCreateDir(o.res)]
          /\ createOk' = IF IsOk(o.res) THEN createOk + 1 ELSE createOk
    /\ pc' = [pc EXCEPT ![c] = "done"]
    /\ log' = [log EXCEPT ![c] = Append(@, "create_dir")]
    /\ createCalls' = createCalls + 1
    /\ UNCHANGED <<opRes, statRes, started, overlap, buildVars, hexVars, pathVars, schemaVars>>

BuildIdle ==
    /\ buildArgs = <<>>
    /\ buildRes = NoResult

HexIdle ==
    /\ hexIn = <<>>
    /\ hexOut = <<>>

PathIdle ==
    /\ root = <<>>
    /\ pathArgs = <<>>
    /\ pathRes = <<>>

SchemaIdle ==
    /\ objects = <<>>
    /\ fetchArg = <<>>
    /\ fetchRead = NoResult
    /\ fetchRes = NoResult

Init == BootInit /\ BuildIdle /\ HexIdle /\ PathIdle /\ SchemaIdle

Next == \E c \in Callers : NewBuild(c) \/ NewStat(c) \/ NewCreateDir(c)

Spec == Init /\ [][Next]_vars

-----------------------------------------------------------------------------
(* Properties of S3Storage::new, checked under Spec *)

Done(c) == pc[c] = "done"

ProbeFailed(c) == IsErr(statRes[c]) /\ statRes[c].val # "NotFound"

ProbeNotFound(c) == IsErr(statRes[c]) /\ statRes[c].val = "NotFound"

\* C1: whenever the probe stat(prefix) of a call of new ended in an error other
\* than NotFound, that call returns an error and never Ok(adapter).
C1_ProbeErrorIsFatal ==
    \A c \in Callers : (Done(c) /\ ProbeFailed(c)) => IsErr(ret[c])

\* C2: in every state in which some call of new has returned Ok(adapter), the
\* root prefix exists in the backing store.
C2_RootExistsOnceOk ==
    \A c \in Callers : IsOk(ret[c]) => exists

\* C3: a call of new issues at most one stat and at most one create_dir, the
\* create_dir after the stat; when the stat reported NotFound the call has
\* issued exactly one create_dir by the time it returns, and it returns
\* Ok(adapter) if the create_dir succeeded and the create_dir error otherwise.
C3_BootstrapRecovery ==
    \A c \in Callers :
        /\ log[c] \in {<<>>, <<"stat">>, <<"stat", "create_dir">>}
        /\ (Done(c) /\ ProbeNotFound(c)) =>
              /\ log[c] = <<"stat", "create_dir">>
              /\ IsOk(createRes[c]) => IsOk(ret[c])
              /\ IsErr(createRes[c]) => (IsErr(ret[c]) /\ ret[c].val = createRes[c].val)

C3_Witness ==
    \E c, d \in Callers :
        /\ Done(c) /\ ProbeNotFound(c) /\ IsOk(createRes[c]) /\ IsOk(ret[c])
        /\ Done(d) /\ ProbeNotFound(d) /\ IsErr(createRes[d]) /\ IsErr(ret[d])

\* C4 as stated: a call of new whose stat succeeded issues no create_dir and
\* returns Ok(adapter), and calls of new made one after the other issue at
\* most one create_dir in total.
C4_AtMostOneCreateCall ==
    /\ \A c \in Callers :
          IsOk(statRes[c]) => (log[c] = <<"stat">> /\ IsOk(ret[c]))
    /\ ~overlap => createCalls <= 1

\* C4 as amended: a call of new whose stat succeeded issues no create_dir and
\* returns Ok(adapter); a call issues create_dir only after its own stat
\* reported NotFound; and over calls of new made one after the other at most
\* one create_dir succeeds.
C4_BootstrapIdempotent ==
    /\ \A c \in Callers :
          /\ IsOk(statRes[c]) => (log[c] = <<"stat">> /\ IsOk(ret[c]))
          /\ (pc[c] = "create_dir" \/ Len(log[c]) = 2) => ProbeNotFound(c)
    /\ ~overlap => createOk <= 1

C4_Witness ==
    /\ ~overlap
    /\ started >= 2
    /\ createOk = 1
    /\ \E c \in Callers : IsOk(statRes[c]) /\ IsOk(ret[c]) /\ log[c] = <<"stat">>

-----------------------------------------------------------------------------
(* build on its own, over all its arguments *)

InitBuild ==
    /\ BootIdle /\ HexIdle /\ PathIdle /\ SchemaIdle
    /\ buildArgs \in BuildArgs
    /\ buildRes = NoResult

Build ==
    /\ buildRes = NoResult
    /\ buildRes' = buildOf(buildArgs)
    /\ UNCHANGED <<buildArgs, bootVars, hexVars, pathVars, schemaVars>>

NextBuild == Build

SpecBuild == InitBuild /\ [][NextBuild]_vars

\* C8: a connection built with no_credentials = true has config loading
\* disabled, instance-metadata probing disabled and anonymous requests allowed,
\* all three; one built with no_credentials = false has none of the three;
\* whatever the region, endpoint, use_ssl and server_side_encryption options.
C8_AnonymousMode ==
    IsOk(buildRes) =>
        LET cfg == buildRes.val.config IN
        /\ cfg.config_load_disabled = buildArgs.no_credentials
        /\ cfg.ec2_metadata_disabled = buildArgs.no_credentials
        /\ cfg.allow_anonymous = buildArgs.no_credentials

C8_Witness ==
    /\ IsOk(buildRes)
    /\ buildArgs.no_credentials
    /\ IsSome(buildArgs.endpoint)
    /\ buildArgs.server_side_encryption = Some(TRUE)
    /\ IsSome(buildArgs.region)
    /\ buildRes.val.config.allow_anonymous

-----------------------------------------------------------------------------
(* encode_hex on its own, over pairs of byte sequences *)

InitHex ==
    /\ BootIdle /\ BuildIdle /\ PathIdle /\ SchemaIdle
    /\ hexIn \in SeqsUpTo(HexByteVals, 0, MaxHexLen) \X SeqsUpTo(HexByteVals, 0, MaxHexLen)
    /\ hexOut = <<>>

EncodeHex ==
    /\ hexOut = <<>>
    /\ hexOut' = <<encode_hex(hexIn[1]), encode_hex(hexIn[2])>>
    /\ UNCHANGED <<hexIn, bootVars, buildVars, pathVars, schemaVars>>

NextHex == EncodeHex

SpecHex == InitHex /\ [][NextHex]_vars

HexDigits == (48..57) \cup (97..102)

\* C5: for byte sequences a, b of any lengths, if a is byte-lexicographically
\* less than b then the lowercase hex string of a is less than that of b as
\* plain strings; the strings are made of the digits 0-9a-f, two per byte.
C5_OrderPreserved ==
    hexOut # <<>> =>
        /\ \A n \in {1, 2} :
              /\ Len(hexOut[n]) = 2 * Len(hexIn[n])
              /\ \A i \in 1..Len(hexOut[n]) : hexOut[n][i] \in HexDigits
        /\ LexLess(hexIn[1], hexIn[2]) => LexLess(hexOut[1], hexOut[2])

\* [0x09] < [0x0a, 0x00]: different lengths, across the digit/letter boundary
C5_Witness ==
    /\ hexIn = <<(<<9>>), <<10, 0>>>>
    /\ hexOut = <<(<<48, 57>>), <<48, 97, 48, 48>>>>

-----------------------------------------------------------------------------
(* path and data_path of one adapter: path(t1), data_path(t1, k1), then
   data_path(t2, k2) *)

InitPath ==
    /\ BootIdle /\ BuildIdle /\ HexIdle /\ SchemaIdle
    /\ root \in Prefixes
    /\ pathArgs \in [t1 : Tables, k1 : Keys, t2 : Tables, k2 : Keys]
    /\ pathRes = <<>>

CallPath ==
    /\ Len(pathRes) = 0
    /\ pathRes' = <<Ok(path(root, pathArgs.t1))>>
    /\ UNCHANGED <<root, pathArgs, bootVars, buildVars, hexVars, schemaVars>>

CallDataPath ==
    /\ Len(pathRes) \in {1, 2}
    /\ pathRes' = Append(pathRes,
                         IF Len(pathRes) = 1
                         THEN data_path(root, pathArgs.t1, pathArgs.k1)
                         ELSE data_path(root, pathArgs.t2, pathArgs.k2))
    /\ UNCHANGED <<root, pathArgs, bootVars, buildVars, hexVars, schemaVars>>

NextPath == CallPath \/ CallDataPath

SpecPath == InitPath /\ [][NextPath]_vars

\* <root>/<table>
TableLayout(r, t) == r \o <<Slash>> \o t

\* <root>/<table>/<hex of the key's bytes>.ron
RowLayout(r, t, k) ==
    r \o <<Slash>> \o t \o <<Slash>> \o encode_hex(k.bytes) \o <<Dot>> \o RonExt

\* r is the path s; as strings too when the root does not end in a separator
SamePath(r, s) ==
    /\ IsOk(r)
    /\ PathEq(r.val, s)
    /\ root[Len(root)] # Slash => r.val = s

\* "/warehouse/orders/0001.ron"
Scenario1Path ==
    <<47, 119, 97, 114, 101, 104, 111, 117, 115, 101, 47, 111, 114, 100, 101, 114,
      115, 47, 48, 48, 48, 49, 46, 114, 111, 110>>

StoreUntouched ==
    /\ exists = FALSE
    /\ createCalls = 0
    /\ \A c \in Callers : log[c] = <<>>

-----------------------------------------------------------------------------
(* fetch_schema against a store holding any objects at the schema paths *)

InitSchema ==
    /\ BootIdle /\ BuildIdle /\ HexIdle /\ PathIdle
    /\ objects \in [SchemaPaths -> Contents]
    /\ fetchArg = <<>>
    /\ fetchRead = NoResult
    /\ fetchRes = NoResult

FetchSchema(p) ==
    /\ \E r \in ReadOutcomes(objects[p]) :
          /\ fetchRead' = r
          /\ fetchRes' = fetch_schema(r)
    /\ fetchArg' = p
    /\ UNCHANGED <<objects, bootVars, buildVars, hexVars, pathVars>>

NextSchema == \E p \in SchemaPaths : FetchSchema(p)

SpecSchema == InitSchema /\ [][NextSchema]_vars

\* C7: fetch_schema returns a Schema only when the read succeeded and the text
\* parsed; every failed read, that of an absent object included, is returned
\* as Error::StorageMsg carrying the failure's description; a text that does
\* not parse is returned as an error that is not StorageMsg; map_storage_err
\* leaves an Ok value as it is.
C7_SchemaReadErrors ==
    fetchArg # <<>> =>
        /\ IsOk(fetchRes) =>
              /\ IsOk(fetchRead)
              /\ fetchRead.val \in ValidDDL
              /\ fetchRes.val.ddl = objects[fetchArg]
        /\ IsErr(fetchRead) =>
              /\ IsErr(fetchRes)
              /\ fetchRes.val.variant = "StorageMsg"
              /\ fetchRes.val.msg = to_string(fetchRead.val)
        /\ objects[fetchArg] = "absent" =>
              (IsErr(fetchRes) /\ fetchRes.val.variant = "StorageMsg")
        /\ (IsOk(fetchRead) /\ fetchRead.val \notin ValidDDL) =>
              (IsErr(fetchRes) /\ fetchRes.val.variant # "StorageMsg")
        /\ IsOk(fetchRead) => map_storage_err(fetchRead) = fetchRead

C7_Witness ==
    /\ fetchArg # <<>>
    /\ objects[fetchArg] = "absent"
    /\ IsErr(fetchRead)
    /\ fetchRead.val.kind = "NotFound"
    /\ IsErr(fetchRes)
    /\ fetchRes.val = [variant |-> "StorageMsg", msg |-> <<"NotFound", "at", "read">>]

=============================================================================
